---- MODULE Spec2Model ----
(***************************************************************************)
(* A model of the open-addressed, insertion-ordered hash map of map.c and  *)
(* map.h: the bucket array, the intrusive order list, tombstone removal    *)
(* and the doubling resize.  Every operation of the public interface is    *)
(* one action; the loops of the C code are operators that execute the loop *)
(* body step by step.                                                      *)
(*                                                                         *)
(* Addresses.  A bucket of the current array is addressed by its index     *)
(* 0 .. capacity-1, NULL is the null pointer and FIRST_ADDR is the address *)
(* of the field m->first, which hashmap_create stores into m->last.  While *)
(* hashmap_resize runs, the old array is still allocated: its bucket j has *)
(* the address (new capacity + j).  A key pointer p >= 1 names a caller    *)
(* buffer whose bytes are KeyData(p).                                      *)
(*                                                                         *)
(* A uint32_t is the pair <<high 16 bits, low 16 bits>>, so that the       *)
(* arithmetic modulo 2^32 never leaves the integers the checker has.       *)
(***************************************************************************)
EXTENDS Integers, Sequences, FiniteSets

VARIABLES
    m,          \* the struct hashmap
    removable,  \* whether the build defines __HASHMAP_REMOVABLE
    call,       \* the last call of the interface: its arguments and results
    shadow,     \* history: the live (key bytes, value) pairs in insertion order
    fillers,    \* history: how many filler keys have been inserted so far
    writes      \* history: how many calls on the named keys have changed the map
                \* (in the churn driver: how many have inserted or removed)

vars == <<m, removable, call, shadow, fillers, writes>>

-----------------------------------------------------------------------------
(* Program constants *)

HASHMAP_DEFAULT_CAPACITY == 20
HASHMAP_RESIZE_FACTOR == 2
TOMBSTONE_VALUE == 57005
ITERATE_LIMIT == 1000
NULL == -1
FIRST_ADDR == -2

\* mutant: the test never holds, so the table is never resized
ExceedsMaxLoad_Never(n, capacity) == FALSE

\* mutant: the test m->count > HASHMAP_MAX_LOAD * m->capacity, one insert late
ExceedsMaxLoad_Late(n, capacity) == 4 * (n - 1) > 3 * capacity

\* mutant: the test with >= in place of >, one insert early
ExceedsMaxLoad_Early(n, capacity) == 4 * n >= 3 * capacity

\* m->count + 1 > HASHMAP_MAX_LOAD * m->capacity, with HASHMAP_MAX_LOAD = 0.75f:
\* both sides are exact in float for the capacities 20 * 2^k of the model
ExceedsMaxLoad(n, capacity) == 4 * n > 3 * capacity

-----------------------------------------------------------------------------
(* Bounds of the model and the callers' inputs *)

MaxFillers == 16      \* filler keys the general driver inserts
MaxWrites == 3        \* insert and remove calls the general driver makes on the named keys
BulkFillers == 1003   \* keys the bulk driver inserts
MaxChurn == 91        \* inserts and removals the churn driver makes on the named keys
MaxAnchors == 1       \* filler keys the churn driver inserts
MaxKeyLen == 4        \* length of the keys the hash driver hashes

\* the general driver calls the interface on the named keys when this many
\* filler keys are in: on the empty map, and at the first resize (with 14
\* fillers in, the first or the second further key makes the table grow, or
\* the 14th filler has done so when two named keys were in before it)
Stations == {0, 14}

\* the callers' key buffers: 1 and 2 hold the same bytes "ab" in two buffers,
\* 3 holds "ac"; the buffers from 4 on hold the filler keys
NamedKeys == {1, 2, 3}
FILLER_BASE == Cardinality(NamedKeys)
Values == {0, 1}

KeyData(p) ==
    IF p = 1 \/ p = 2 THEN <<97, 98>>
    ELSE IF p = 3 THEN <<97, 99>>
    ELSE <<(p - FILLER_BASE) % 128, 70, (p - FILLER_BASE) \div 128>>

KeySize(p) == Len(KeyData(p))

\* the value the drivers store with filler key p
FillerValue(p) == 100 + p

-----------------------------------------------------------------------------
(* uint32_t arithmetic *)

W16 == 2 ^ 16

RECURSIVE BitXor(_, _, _)
BitXor(a, b, n) ==
    IF n = 0 THEN 0
    ELSE (((a % 2) + (b % 2)) % 2) + 2 * BitXor(a \div 2, b \div 2, n - 1)

\* hash ^= c for a byte c in 0 .. 127 (a char that is not negative)
Xor32(hash, c) == <<hash[1], BitXor(hash[2], c, 16)>>

\* hash *= p modulo 2^32
Mul32(hash, p) ==
    LET ll == hash[2] * p[2]
    IN  <<(hash[1] * p[2] + hash[2] * p[1] + (ll \div W16)) % W16, ll % W16>>

\* hash % capacity
Mod32(hash, capacity) ==
    ((hash[1] % capacity) * (W16 % capacity) + (hash[2] % capacity)) % capacity

\* 2166136261u = 0x811C9DC5 and 16777619 = 0x01000193
HASHMAP_HASH_INIT == <<33052, 40389>>
FNV_PRIME == <<256, 403>>

\* the loop of hash_data: the index advances in the loop header and once more
\* in the body, so the bytes at the even offsets 0, 2, 4, ... are the ones read
RECURSIVE hash_loop(_, _, _, _)
hash_loop(data, size, i, hash) ==
    IF i < size
    THEN hash_loop(data, size, (i + 1) + 1, Mul32(Xor32(hash, data[i + 1]), FNV_PRIME))
    ELSE hash

hash_data(data, size) == hash_loop(data, size, 0, HASHMAP_HASH_INIT)

-----------------------------------------------------------------------------
(* struct bucket and struct hashmap *)

\* a bucket of calloc'ed memory
ZeroBucket == [next |-> NULL, key |-> NULL, ksize |-> 0, hash |-> <<0, 0>>, value |-> 0]

hashmap_create ==
    [buckets |-> [i \in 0 .. HASHMAP_DEFAULT_CAPACITY - 1 |-> ZeroBucket],
     capacity |-> HASHMAP_DEFAULT_CAPACITY,
     count |-> 0,
     tombstone_count |-> 0,
     first |-> NULL,
     last |-> FIRST_ADDR]

\* the value a call that does not return (a crash, an endless loop) stands for
NO_RETURN == [no_return |-> TRUE]

\* memcmp(a, b, ksize) == 0
memcmp_equal(a, b, ksize) == \A i \in 1 .. ksize : a[i] = b[i]

\* m->last->next = addr, where m->last is a bucket or the field m->first
SetLastNext(mm, addr) ==
    IF mm.last = FIRST_ADDR
    THEN [mm EXCEPT !.first = addr]
    ELSE [mm EXCEPT !.buckets[mm.last].next = addr]

-----------------------------------------------------------------------------
(* find_entry *)

\* mutant: the removable build stops at every bucket whose key is NULL, a
\* tombstone included
FindStops_AtTombstone(entry, key, ksize, hash, rem) ==
    \/ entry.key = NULL
    \/ (/\ entry.ksize = ksize
        /\ entry.hash = hash
        /\ memcmp_equal(KeyData(entry.key), KeyData(key), ksize))

\* mutant: the memcmp of the key bytes is left out, so that equal length and
\* equal digest make a match
FindStops_NoMemcmp(entry, key, ksize, hash, rem) ==
    IF rem
    THEN \/ (entry.key = NULL /\ entry.value = 0)
         \/ (/\ entry.key # NULL
             /\ entry.ksize = ksize
             /\ entry.hash = hash)
    ELSE \/ entry.key = NULL
         \/ (/\ entry.ksize = ksize
             /\ entry.hash = hash)

\* the condition under which find_entry returns the bucket `entry`
FindStops(entry, key, ksize, hash, rem) ==
    IF rem
    THEN \/ (entry.key = NULL /\ entry.value = 0)
         \/ (/\ entry.key # NULL
             /\ entry.ksize = ksize
             /\ entry.hash = hash
             /\ memcmp_equal(KeyData(entry.key), KeyData(key), ksize))
    ELSE \/ entry.key = NULL
         \/ (/\ entry.ksize = ksize
             /\ entry.hash = hash
             /\ memcmp_equal(KeyData(entry.key), KeyData(key), ksize))

\* the for (;;) of find_entry from `index`; the scan is periodic, so when `left`
\* = capacity buckets in a row do not stop it, it never stops: -3
NO_BUCKET == -3

RECURSIVE find_probe(_, _, _, _, _, _, _)
find_probe(mm, key, ksize, hash, rem, index, left) ==
    IF FindStops(mm.buckets[index], key, ksize, hash, rem) THEN index
    ELSE IF left <= 1 THEN NO_BUCKET
    ELSE find_probe(mm, key, ksize, hash, rem, (index + 1) % mm.capacity, left - 1)

\* mutant: the loop of the build without removal, which stops at every null
\* key, is used in the build with removal too
find_entry_NullKeyStops(mm, key, ksize, hash, rem) ==
    find_probe(mm, key, ksize, hash, FALSE, Mod32(hash, mm.capacity), mm.capacity)

find_entry(mm, key, ksize, hash, rem) ==
    find_probe(mm, key, ksize, hash, rem, Mod32(hash, mm.capacity), mm.capacity)

-----------------------------------------------------------------------------
(* hashmap_resize *)

\* the for (;;) of resize_entry over the new array
RECURSIVE resize_probe(_, _, _, _)
resize_probe(buckets, capacity, index, left) ==
    IF buckets[index].key = NULL THEN index
    ELSE IF left <= 1 THEN NO_BUCKET
    ELSE resize_probe(buckets, capacity, (index + 1) % capacity, left - 1)

resize_entry(buckets, capacity, old_entry) ==
    resize_probe(buckets, capacity, Mod32(old_entry.hash, capacity), capacity)

\* The state of the do-while of hashmap_resize: the new array, the old array
\* (its bucket j at address capacity + j), first, last, and whether the loop
\* has ended (done) or dereferenced NULL (crashed).
ResizeDeref(s, addr) ==
    IF addr >= s.capacity THEN s.old[addr - s.capacity] ELSE s.buckets[addr]

ResizeLastNext(s) ==
    IF s.last = FIRST_ADDR THEN s.first ELSE s.buckets[s.last].next

ResizeSetLastNext(s, addr) ==
    IF s.last = FIRST_ADDR
    THEN [s EXCEPT !.first = addr]
    ELSE [s EXCEPT !.buckets[s.last].next = addr]

\* the loop condition: while (m->last->next != NULL)
ResizeCondition(s) == [s EXCEPT !.done = (ResizeLastNext(s) = NULL)]

\* mutant: the tombstone check of the loop body is left out, so a tombstone is
\* moved to the new array like a live entry
resize_step_MovesTombstones(s, rem) ==
    IF s.done \/ s.crashed THEN s
    ELSE LET current == ResizeLastNext(s)
         IN  IF current = NULL
             THEN [s EXCEPT !.crashed = TRUE]
             ELSE LET old_entry == ResizeDeref(s, current)
                      entry == resize_entry(s.buckets, s.capacity, old_entry)
                  IN  IF entry = NO_BUCKET
                      THEN [s EXCEPT !.crashed = TRUE]
                      ELSE LET s1 == [s EXCEPT !.buckets[entry] = old_entry]
                               s2 == ResizeSetLastNext(s1, entry)
                           IN  ResizeCondition([s2 EXCEPT !.last = entry])

\* one pass through the body of the do-while, then the loop condition
resize_step(s, rem) ==
    IF s.done \/ s.crashed THEN s
    ELSE LET current == ResizeLastNext(s)
         IN  IF current = NULL
             THEN [s EXCEPT !.crashed = TRUE]
             ELSE IF rem /\ ResizeDeref(s, current).key = NULL
             THEN ResizeCondition(ResizeSetLastNext(s, ResizeDeref(s, current).next))
             ELSE LET old_entry == ResizeDeref(s, current)
                      entry == resize_entry(s.buckets, s.capacity, old_entry)
                  IN  IF entry = NO_BUCKET
                      THEN [s EXCEPT !.crashed = TRUE]
                      ELSE LET s1 == [s EXCEPT !.buckets[entry] = old_entry]
                               s2 == ResizeSetLastNext(s1, entry)
                           IN  ResizeCondition([s2 EXCEPT !.last = entry])

\* at most n passes, run as two halves so that the evaluation stays shallow
RECURSIVE resize_loop(_, _, _)
resize_loop(s, rem, n) ==
    IF s.done \/ s.crashed THEN s
    ELSE IF n <= 1 THEN resize_step(s, rem)
    ELSE resize_loop(resize_loop(s, rem, n \div 2), rem, n - (n \div 2))

\* the old array as the loop sees it: a next pointer into the old array is
\* the address of that bucket beside the new array
OldAddr(next, capacity) == IF next = NULL THEN NULL ELSE capacity + next

\* mutant: m->count -= m->tombstone_count is left out
hashmap_resize_KeepsCount(mm, rem) ==
    LET capacity == mm.capacity * HASHMAP_RESIZE_FACTOR
        s0 == [buckets |-> [i \in 0 .. capacity - 1 |-> ZeroBucket],
               capacity |-> capacity,
               old |-> [j \in 0 .. mm.capacity - 1 |->
                           [mm.buckets[j] EXCEPT !.next = OldAddr(@, capacity)]],
               first |-> OldAddr(mm.first, capacity),
               last |-> FIRST_ADDR,
               done |-> FALSE,
               crashed |-> FALSE]
        s == resize_loop(s0, rem, mm.count + 1)
    IN  IF s.crashed \/ ~s.done THEN NO_RETURN
        ELSE [buckets |-> s.buckets,
              capacity |-> capacity,
              count |-> mm.count,
              tombstone_count |-> 0,
              first |-> s.first,
              last |-> s.last]

hashmap_resize(mm, rem) ==
    LET capacity == mm.capacity * HASHMAP_RESIZE_FACTOR
        s0 == [buckets |-> [i \in 0 .. capacity - 1 |-> ZeroBucket],
               capacity |-> capacity,
               old |-> [j \in 0 .. mm.capacity - 1 |->
                           [mm.buckets[j] EXCEPT !.next = OldAddr(@, capacity)]],
               first |-> OldAddr(mm.first, capacity),
               last |-> FIRST_ADDR,
               done |-> FALSE,
               crashed |-> FALSE]
        s == resize_loop(s0, rem, mm.count + 1)
    IN  IF s.crashed \/ ~s.done THEN NO_RETURN
        ELSE [buckets |-> s.buckets,
              capacity |-> capacity,
              count |-> IF rem THEN mm.count - mm.tombstone_count ELSE mm.count,
              tombstone_count |-> 0,
              first |-> s.first,
              last |-> s.last]

-----------------------------------------------------------------------------
(* The insert-class operations *)

\* if (m->count + 1 > HASHMAP_MAX_LOAD * m->capacity) hashmap_resize(m);
ResizeIfNeeded(mm, rem) ==
    IF ExceedsMaxLoad(mm.count + 1, mm.capacity) THEN hashmap_resize(mm, rem) ELSE mm

\* mutant: m->last = entry is left out
LinkEntry_KeepLast(mm, entry) ==
    LET m1 == SetLastNext(mm, entry)
        m3 == [m1 EXCEPT !.buckets[entry].next = NULL]
    IN  [m3 EXCEPT !.count = @ + 1]

\* the branch `if (entry->key == NULL)` of the three insert operations up to
\* ++m->count: the bucket is appended to the order list
LinkEntry(mm, entry) ==
    LET m1 == SetLastNext(mm, entry)
        m2 == [m1 EXCEPT !.last = entry]
        m3 == [m2 EXCEPT !.buckets[entry].next = NULL]
    IN  [m3 EXCEPT !.count = @ + 1]

\* mutant: ++m->count is outside the if, so an overwrite counts too
hashmap_set_CountsOverwrite(mm, key, ksize, val, rem) ==
    LET m1 == ResizeIfNeeded(mm, rem)
        hash == hash_data(KeyData(key), ksize)
        entry == IF m1 = NO_RETURN THEN NO_BUCKET ELSE find_entry(m1, key, ksize, hash, rem)
    IN  IF entry = NO_BUCKET THEN NO_RETURN
        ELSE IF m1.buckets[entry].key = NULL
        THEN LET m2 == LinkEntry(m1, entry)
                 m3 == [m2 EXCEPT !.buckets[entry].key = key,
                                  !.buckets[entry].ksize = ksize,
                                  !.buckets[entry].hash = hash]
             IN  [m3 EXCEPT !.buckets[entry].value = val]
        ELSE [m1 EXCEPT !.buckets[entry].value = val, !.count = @ + 1]

\* mutant: an overwrite stores the caller's key reference, as hashmap_set_free
hashmap_set_ReplacesKey(mm, key, ksize, val, rem) ==
    LET m1 == ResizeIfNeeded(mm, rem)
        hash == hash_data(KeyData(key), ksize)
        entry == IF m1 = NO_RETURN THEN NO_BUCKET ELSE find_entry(m1, key, ksize, hash, rem)
    IN  IF entry = NO_BUCKET THEN NO_RETURN
        ELSE IF m1.buckets[entry].key = NULL
        THEN LET m2 == LinkEntry(m1, entry)
                 m3 == [m2 EXCEPT !.buckets[entry].key = key,
                                  !.buckets[entry].ksize = ksize,
                                  !.buckets[entry].hash = hash]
             IN  [m3 EXCEPT !.buckets[entry].value = val]
        ELSE [m1 EXCEPT !.buckets[entry].key = key, !.buckets[entry].value = val]

hashmap_set(mm, key, ksize, val, rem) ==
    LET m1 == ResizeIfNeeded(mm, rem)
        hash == hash_data(KeyData(key), ksize)
        entry == IF m1 = NO_RETURN THEN NO_BUCKET ELSE find_entry(m1, key, ksize, hash, rem)
    IN  IF entry = NO_BUCKET THEN NO_RETURN
        ELSE IF m1.buckets[entry].key = NULL
        THEN LET m2 == LinkEntry(m1, entry)
                 m3 == [m2 EXCEPT !.buckets[entry].key = key,
                                  !.buckets[entry].ksize = ksize,
                                  !.buckets[entry].hash = hash]
             IN  [m3 EXCEPT !.buckets[entry].value = val]
        ELSE [m1 EXCEPT !.buckets[entry].value = val]

\* mutant: a key that is found has its value overwritten, as by hashmap_set
hashmap_get_set_Overwrites(mm, key, ksize, out_in, rem) ==
    LET m1 == ResizeIfNeeded(mm, rem)
        hash == hash_data(KeyData(key), ksize)
        entry == IF m1 = NO_RETURN THEN NO_BUCKET ELSE find_entry(m1, key, ksize, hash, rem)
    IN  IF entry = NO_BUCKET THEN NO_RETURN
        ELSE IF m1.buckets[entry].key = NULL
        THEN LET m2 == LinkEntry(m1, entry)
             IN  [m |-> [m2 EXCEPT !.buckets[entry].value = out_in,
                                   !.buckets[entry].key = key,
                                   !.buckets[entry].ksize = ksize,
                                   !.buckets[entry].hash = hash],
                  ret |-> FALSE,
                  out_in |-> out_in]
        ELSE [m |-> [m1 EXCEPT !.buckets[entry].value = out_in],
              ret |-> TRUE,
              out_in |-> out_in]

\* mutant: the resize test is made only when the key is not present
hashmap_get_set_ResizesOnInsert(mm, key, ksize, out_in, rem) ==
    LET hash == hash_data(KeyData(key), ksize)
        found == find_entry(mm, key, ksize, hash, rem)
        present == found # NO_BUCKET /\ mm.buckets[found].key # NULL
        m1 == IF present THEN mm ELSE ResizeIfNeeded(mm, rem)
        entry == IF m1 = NO_RETURN THEN NO_BUCKET ELSE find_entry(m1, key, ksize, hash, rem)
    IN  IF entry = NO_BUCKET THEN NO_RETURN
        ELSE IF m1.buckets[entry].key = NULL
        THEN LET m2 == LinkEntry(m1, entry)
             IN  [m |-> [m2 EXCEPT !.buckets[entry].value = out_in,
                                   !.buckets[entry].key = key,
                                   !.buckets[entry].ksize = ksize,
                                   !.buckets[entry].hash = hash],
                  ret |-> FALSE,
                  out_in |-> out_in]
        ELSE [m |-> m1, ret |-> TRUE, out_in |-> m1.buckets[entry].value]

\* the result is the map, the return value and the final *out_in
hashmap_get_set(mm, key, ksize, out_in, rem) ==
    LET m1 == ResizeIfNeeded(mm, rem)
        hash == hash_data(KeyData(key), ksize)
        entry == IF m1 = NO_RETURN THEN NO_BUCKET ELSE find_entry(m1, key, ksize, hash, rem)
    IN  IF entry = NO_BUCKET THEN NO_RETURN
        ELSE IF m1.buckets[entry].key = NULL
        THEN LET m2 == LinkEntry(m1, entry)
             IN  [m |-> [m2 EXCEPT !.buckets[entry].value = out_in,
                                   !.buckets[entry].key = key,
                                   !.buckets[entry].ksize = ksize,
                                   !.buckets[entry].hash = hash],
                  ret |-> FALSE,
                  out_in |-> out_in]
        ELSE [m |-> m1, ret |-> TRUE, out_in |-> m1.buckets[entry].value]

\* one invocation of a hashmap_callback: its arguments, and what the bucket it
\* is about holds at the moment of the call
Callback(key, ksize, value, entry) ==
    [key |-> key, ksize |-> ksize, value |-> value,
     entry_key |-> entry.key, entry_value |-> entry.value]

\* mutant: the callback is invoked after the key reference and the value have
\* been overwritten
hashmap_set_free_CallbackLast(mm, key, ksize, val, rem) ==
    LET m1 == ResizeIfNeeded(mm, rem)
        hash == hash_data(KeyData(key), ksize)
        entry == IF m1 = NO_RETURN THEN NO_BUCKET ELSE find_entry(m1, key, ksize, hash, rem)
    IN  IF entry = NO_BUCKET THEN NO_RETURN
        ELSE IF m1.buckets[entry].key = NULL
        THEN LET m2 == LinkEntry(m1, entry)
             IN  [m |-> [m2 EXCEPT !.buckets[entry].key = key,
                                   !.buckets[entry].ksize = ksize,
                                   !.buckets[entry].hash = hash,
                                   !.buckets[entry].value = val],
                  cb |-> <<>>]
        ELSE LET m2 == [m1 EXCEPT !.buckets[entry].key = key]
                 m3 == [m2 EXCEPT !.buckets[entry].value = val]
                 c == Callback(m3.buckets[entry].key, ksize, m3.buckets[entry].value,
                               m3.buckets[entry])
             IN  [m |-> m3, cb |-> <<c>>]

\* the result is the map and the invocations of the callback c
hashmap_set_free(mm, key, ksize, val, rem) ==
    LET m1 == ResizeIfNeeded(mm, rem)
        hash == hash_data(KeyData(key), ksize)
        entry == IF m1 = NO_RETURN THEN NO_BUCKET ELSE find_entry(m1, key, ksize, hash, rem)
    IN  IF entry = NO_BUCKET THEN NO_RETURN
        ELSE IF m1.buckets[entry].key = NULL
        THEN LET m2 == LinkEntry(m1, entry)
             IN  [m |-> [m2 EXCEPT !.buckets[entry].key = key,
                                   !.buckets[entry].ksize = ksize,
                                   !.buckets[entry].hash = hash,
                                   !.buckets[entry].value = val],
                  cb |-> <<>>]
        ELSE LET c == Callback(m1.buckets[entry].key, ksize, m1.buckets[entry].value,
                               m1.buckets[entry])
                 m2 == [m1 EXCEPT !.buckets[entry].key = key]
             IN  [m |-> [m2 EXCEPT !.buckets[entry].value = val], cb |-> <<c>>]

-----------------------------------------------------------------------------
(* Lookup, removal, size *)

\* mutant: the lookup starts with the resize test of the insert operations
hashmap_get_Resizes(mm, key, ksize, rem) ==
    LET m1 == ResizeIfNeeded(mm, rem)
        hash == hash_data(KeyData(key), ksize)
        entry == IF m1 = NO_RETURN THEN NO_BUCKET ELSE find_entry(m1, key, ksize, hash, rem)
    IN  IF entry = NO_BUCKET THEN NO_RETURN
        ELSE [m |-> m1,
              ret |-> m1.buckets[entry].key # NULL,
              out_val |-> m1.buckets[entry].value]

\* the result is the map, the return value and the final *out_val
hashmap_get(mm, key, ksize, rem) ==
    LET hash == hash_data(KeyData(key), ksize)
        entry == find_entry(mm, key, ksize, hash, rem)
    IN  IF entry = NO_BUCKET THEN NO_RETURN
        ELSE [m |-> mm,
              ret |-> mm.buckets[entry].key # NULL,
              out_val |-> mm.buckets[entry].value]

\* mutant: ++m->tombstone_count is left out
MakeTombstone_NoCount(mm, entry) ==
    LET m1 == [mm EXCEPT !.buckets[entry].key = NULL]
    IN  [m1 EXCEPT !.buckets[entry].value = TOMBSTONE_VALUE]

\* mutant: a removal takes the bucket out of count
MakeTombstone_LowersCount(mm, entry) ==
    LET m1 == [mm EXCEPT !.buckets[entry].key = NULL]
        m2 == [m1 EXCEPT !.buckets[entry].value = TOMBSTONE_VALUE]
    IN  [m2 EXCEPT !.count = @ - 1]

\* mutant: the removed bucket is left with the value 0, as a bucket never used
MakeTombstone_ZeroValue(mm, entry) ==
    LET m1 == [mm EXCEPT !.buckets[entry].key = NULL]
        m2 == [m1 EXCEPT !.buckets[entry].value = 0]
    IN  [m2 EXCEPT !.tombstone_count = @ + 1]

\* entry->key = NULL; entry->value = 0xDEAD; ++m->tombstone_count;
MakeTombstone(mm, entry) ==
    LET m1 == [mm EXCEPT !.buckets[entry].key = NULL]
        m2 == [m1 EXCEPT !.buckets[entry].value = TOMBSTONE_VALUE]
    IN  [m2 EXCEPT !.tombstone_count = @ + 1]

hashmap_remove(mm, key, ksize) ==
    LET hash == hash_data(KeyData(key), ksize)
        entry == find_entry(mm, key, ksize, hash, TRUE)
    IN  IF entry = NO_BUCKET THEN NO_RETURN
        ELSE IF mm.buckets[entry].key # NULL THEN MakeTombstone(mm, entry)
        ELSE mm

\* the result is the map and the invocations of the callback c
hashmap_remove_free(mm, key, ksize) ==
    LET hash == hash_data(KeyData(key), ksize)
        entry == find_entry(mm, key, ksize, hash, TRUE)
    IN  IF entry = NO_BUCKET THEN NO_RETURN
        ELSE IF mm.buckets[entry].key # NULL
        THEN LET e == mm.buckets[entry]
             IN  [m |-> MakeTombstone(mm, entry),
                  cb |-> <<Callback(e.key, e.ksize, e.value, e)>>]
        ELSE [m |-> mm, cb |-> <<>>]

hashmap_size(mm, rem) ==
    IF rem THEN mm.count - mm.tombstone_count ELSE mm.count

-----------------------------------------------------------------------------
(* hashmap_iterate: the definition of map.c and the inline one of map.h *)

\* The state of the while loop: current, the counter co of map.c, the
\* invocations of the callback so far, and whether the loop has ended.
IterateVisit(s, mm, rem) ==
    LET e == mm.buckets[s.current]
    IN  IF rem => e.key # NULL
        THEN [s EXCEPT !.cb = Append(@, Callback(e.key, e.ksize, e.value, e))]
        ELSE s

\* one pass of the loop of map.c, which leaves the loop when co > 1000
iterate_step(s, mm, rem) ==
    IF s.done THEN s
    ELSE IF s.current = NULL THEN [s EXCEPT !.done = TRUE]
    ELSE LET s1 == IterateVisit(s, mm, rem)
             s2 == [s1 EXCEPT !.current = mm.buckets[s.current].next]
         IN  IF s2.co > ITERATE_LIMIT
             THEN [s2 EXCEPT !.done = TRUE]
             ELSE [s2 EXCEPT !.co = @ + 1]

\* one pass of the loop of map.h
iterate_inline_step(s, mm, rem) ==
    IF s.done THEN s
    ELSE IF s.current = NULL THEN [s EXCEPT !.done = TRUE]
    ELSE LET s1 == IterateVisit(s, mm, rem)
         IN  [s1 EXCEPT !.current = mm.buckets[s.current].next]

\* at most n passes, run as two halves so that the evaluation stays shallow
RECURSIVE iterate_loop(_, _, _, _)
iterate_loop(s, mm, rem, n) ==
    IF s.done THEN s
    ELSE IF n <= 1 THEN iterate_step(s, mm, rem)
    ELSE iterate_loop(iterate_loop(s, mm, rem, n \div 2), mm, rem, n - (n \div 2))

RECURSIVE iterate_inline_loop(_, _, _, _)
iterate_inline_loop(s, mm, rem, n) ==
    IF s.done THEN s
    ELSE IF n <= 1 THEN iterate_inline_step(s, mm, rem)
    ELSE iterate_inline_loop(iterate_inline_loop(s, mm, rem, n \div 2), mm, rem,
                             n - (n \div 2))

IterateStart(mm) == [current |-> mm.first, co |-> 0, cb |-> <<>>, done |-> FALSE]

\* the invocations of the callback, in order (the list has m->count nodes)
hashmap_iterate(mm, rem) == iterate_loop(IterateStart(mm), mm, rem, mm.count + 1).cb

hashmap_iterate_inline(mm, rem) ==
    iterate_inline_loop(IterateStart(mm), mm, rem, mm.count + 1).cb

-----------------------------------------------------------------------------
(* History: the map as a list of (key bytes, value) in insertion order *)

ShadowIndex(sh, data) ==
    IF \E i \in DOMAIN sh : sh[i].data = data
    THEN CHOOSE i \in DOMAIN sh : sh[i].data = data
    ELSE 0

ShadowHas(sh, data) == ShadowIndex(sh, data) # 0

ShadowPut(sh, data, value) ==
    IF ShadowHas(sh, data)
    THEN [sh EXCEPT ![ShadowIndex(sh, data)].value = value]
    ELSE Append(sh, [data |-> data, value |-> value])

ShadowPutIfAbsent(sh, data, value) ==
    IF ShadowHas(sh, data) THEN sh ELSE Append(sh, [data |-> data, value |-> value])

ShadowDel(sh, data) ==
    LET Keep(e) == e.data # data IN SelectSeq(sh, Keep)

-----------------------------------------------------------------------------
(* The interface calls as actions *)

Call(op, key, val, ret, out, cb) ==
    [op |-> op, key |-> key, val |-> val, ret |-> ret, out |-> out, cb |-> cb]

Init ==
    /\ m = hashmap_create
    /\ removable \in BOOLEAN
    /\ call = Call("create", NULL, 0, FALSE, 0, <<>>)
    /\ shadow = <<>>
    /\ fillers = 0
    /\ writes = 0

AtStation == fillers \in Stations

MayWrite == AtStation /\ writes < MaxWrites

\* hashmap_set of the next filler key, while fewer than `bound` are in
SetNextFiller(bound) ==
    /\ fillers < bound
    /\ LET key == FILLER_BASE + fillers + 1
           r == hashmap_set(m, key, KeySize(key), FillerValue(key), removable)
       IN  /\ r # NO_RETURN
           /\ m' = r
           /\ call' = Call("set", key, FillerValue(key), FALSE, 0, <<>>)
           /\ shadow' = ShadowPut(shadow, KeyData(key), FillerValue(key))
    /\ fillers' = fillers + 1
    /\ UNCHANGED <<removable, writes>>

SetFiller == SetNextFiller(MaxFillers)

Set ==
    /\ MayWrite
    /\ \E key \in NamedKeys, val \in Values :
        LET r == hashmap_set(m, key, KeySize(key), val, removable)
        IN  /\ r # NO_RETURN
            /\ m' = r
            /\ call' = Call("set", key, val, FALSE, 0, <<>>)
            /\ shadow' = ShadowPut(shadow, KeyData(key), val)
    /\ writes' = writes + 1
    /\ UNCHANGED <<removable, fillers>>

GetSet ==
    /\ MayWrite
    /\ \E key \in NamedKeys, val \in Values :
        LET r == hashmap_get_set(m, key, KeySize(key), val, removable)
        IN  /\ r # NO_RETURN
            /\ m' = r.m
            /\ call' = Call("get_set", key, val, r.ret, r.out_in, <<>>)
            /\ shadow' = ShadowPutIfAbsent(shadow, KeyData(key), val)
    /\ writes' = writes + 1
    /\ UNCHANGED <<removable, fillers>>

SetFree ==
    /\ MayWrite
    /\ \E key \in NamedKeys, val \in Values :
        LET r == hashmap_set_free(m, key, KeySize(key), val, removable)
        IN  /\ r # NO_RETURN
            /\ m' = r.m
            /\ call' = Call("set_free", key, val, FALSE, 0, r.cb)
            /\ shadow' = ShadowPut(shadow, KeyData(key), val)
    /\ writes' = writes + 1
    /\ UNCHANGED <<removable, fillers>>

\* the keys looked up: the named ones, the first filler and the next filler,
\* which is not in the map
GetKeys == NamedKeys \cup {FILLER_BASE + 1, FILLER_BASE + fillers + 1}

Get ==
    /\ AtStation
    /\ \E key \in GetKeys :
        LET r == hashmap_get(m, key, KeySize(key), removable)
        IN  /\ r # NO_RETURN
            /\ m' = r.m
            /\ call' = Call("get", key, 0, r.ret, r.out_val, <<>>)
    /\ UNCHANGED <<removable, shadow, fillers, writes>>

Remove ==
    /\ MayWrite
    /\ removable
    /\ \E key \in NamedKeys :
        LET r == hashmap_remove(m, key, KeySize(key))
        IN  /\ r # NO_RETURN
            /\ m' = r
            /\ call' = Call("remove", key, 0, FALSE, 0, <<>>)
            /\ shadow' = ShadowDel(shadow, KeyData(key))
    /\ writes' = writes + 1
    /\ UNCHANGED <<removable, fillers>>

RemoveFree ==
    /\ MayWrite
    /\ removable
    /\ \E key \in NamedKeys :
        LET r == hashmap_remove_free(m, key, KeySize(key))
        IN  /\ r # NO_RETURN
            /\ m' = r.m
            /\ call' = Call("remove_free", key, 0, FALSE, 0, r.cb)
            /\ shadow' = ShadowDel(shadow, KeyData(key))
    /\ writes' = writes + 1
    /\ UNCHANGED <<removable, fillers>>

Size ==
    /\ AtStation
    /\ call' = Call("size", NULL, 0, FALSE, hashmap_size(m, removable), <<>>)
    /\ UNCHANGED <<m, removable, shadow, fillers, writes>>

Iterate ==
    /\ AtStation
    /\ call' = Call("iterate", NULL, 0, FALSE, 0, hashmap_iterate(m, removable))
    /\ UNCHANGED <<m, removable, shadow, fillers, writes>>

IterateInline ==
    /\ AtStation
    /\ call' = Call("iterate_inline", NULL, 0, FALSE, 0, hashmap_iterate_inline(m, removable))
    /\ UNCHANGED <<m, removable, shadow, fillers, writes>>

Next ==
    \/ SetFiller
    \/ Set
    \/ GetSet
    \/ SetFree
    \/ Get
    \/ Remove
    \/ RemoveFree
    \/ Size
    \/ Iterate
    \/ IterateInline

Spec == Init /\ [][Next]_vars

\* The bulk driver: BulkFillers filler keys, then the two traversals.
BulkSet == SetNextFiller(BulkFillers)

BulkIterate ==
    /\ fillers = BulkFillers
    /\ call' = Call("iterate", NULL, 0, FALSE, 0, hashmap_iterate(m, removable))
    /\ UNCHANGED <<m, removable, shadow, fillers, writes>>

BulkIterateInline ==
    /\ fillers = BulkFillers
    /\ call' = Call("iterate_inline", NULL, 0, FALSE, 0, hashmap_iterate_inline(m, removable))
    /\ UNCHANGED <<m, removable, shadow, fillers, writes>>

NextBulk ==
    \/ BulkSet
    \/ BulkIterate
    \/ BulkIterateInline

SpecBulk == Init /\ [][NextBulk]_vars

\* The churn driver (the build with removal is the one it is about): at most
\* one named key is live at a time; it is inserted, overwritten and removed
\* again and again, so that the tombstones pile up.  `writes` counts the
\* inserts and the removals.  One filler key, the anchor, may be inserted when
\* Stations inserts and removals have been made, and it stays live: without it
\* hashmap_size is never above one, with it the order list has a live node
\* among the tombstones.
NamedLive == Len(shadow) - fillers

ChurnSet ==
    /\ writes < MaxChurn
    /\ NamedLive = 0
    /\ \E key \in NamedKeys, val \in Values :
        LET r == hashmap_set(m, key, KeySize(key), val, removable)
        IN  /\ r # NO_RETURN
            /\ m' = r
            /\ call' = Call("set", key, val, FALSE, 0, <<>>)
            /\ shadow' = ShadowPut(shadow, KeyData(key), val)
    /\ writes' = writes + 1
    /\ UNCHANGED <<removable, fillers>>

\* hashmap_set of the named key that is live
ChurnOverwrite ==
    /\ \E key \in NamedKeys, val \in Values :
        /\ ShadowHas(shadow, KeyData(key))
        /\ LET r == hashmap_set(m, key, KeySize(key), val, removable)
           IN  /\ r # NO_RETURN
               /\ m' = r
               /\ call' = Call("set", key, val, FALSE, 0, <<>>)
               /\ shadow' = ShadowPut(shadow, KeyData(key), val)
    /\ UNCHANGED <<removable, fillers, writes>>

\* hashmap_remove of the named key that is live
ChurnRemove ==
    /\ writes < MaxChurn
    /\ removable
    /\ \E key \in NamedKeys :
        /\ ShadowHas(shadow, KeyData(key))
        /\ LET r == hashmap_remove(m, key, KeySize(key))
           IN  /\ r # NO_RETURN
               /\ m' = r
               /\ call' = Call("remove", key, 0, FALSE, 0, <<>>)
               /\ shadow' = ShadowDel(shadow, KeyData(key))
    /\ writes' = writes + 1
    /\ UNCHANGED <<removable, fillers>>

ChurnAnchor ==
    /\ writes \in Stations
    /\ SetNextFiller(MaxAnchors)

NextChurn ==
    \/ ChurnSet
    \/ ChurnOverwrite
    \/ ChurnRemove
    \/ ChurnAnchor

SpecChurn == Init /\ [][NextChurn]_vars

\* The hash driver: a caller's key is any string of at most MaxKeyLen bytes
\* of HashBytes, and hash_data is applied to it.
HashBytes == {97, 98, 99}

HashKeys == UNION {[1 .. n -> HashBytes] : n \in 0 .. MaxKeyLen}

InitHash ==
    /\ m = hashmap_create
    /\ removable \in BOOLEAN
    /\ \E data \in HashKeys : call = Call("key", data, 0, FALSE, 0, <<>>)
    /\ shadow = <<>>
    /\ fillers = 0
    /\ writes = 0

HashData ==
    /\ call.op = "key"
    /\ call' = Call("hash_data", call.key, 0, FALSE, hash_data(call.key, Len(call.key)), <<>>)
    /\ UNCHANGED <<m, removable, shadow, fillers, writes>>

NextHash == HashData

SpecHash == InitHash /\ [][NextHash]_vars

-----------------------------------------------------------------------------
(* Views of the map and of the history that the properties compare *)

\* hashmap_get as a caller of the build sees it
Lookup(mm, p) == hashmap_get(mm, p, KeySize(p), removable)

SizeOf(mm) == hashmap_size(mm, removable)

\* the key buffers a caller has: the named keys, the fillers inserted so far
\* and the next filler, which has never been inserted
KnownKeys == NamedKeys \cup (FILLER_BASE + 1 .. FILLER_BASE + fillers + 1)

ShadowValue(sh, data) == sh[ShadowIndex(sh, data)].value

\* the callback invocations a traversal of the live entries in insertion
\* order makes according to the history: (key bytes, key size, value) of each
ShadowVisits(sh) ==
    [i \in DOMAIN sh |->
        [data |-> sh[i].data, ksize |-> Len(sh[i].data), value |-> sh[i].value]]

\* the same view of the invocations a call made
Visits(cb) ==
    [i \in DOMAIN cb |->
        [data |-> KeyData(cb[i].key), ksize |-> cb[i].ksize, value |-> cb[i].value]]

\* the addresses of the nodes of the order list from m->first; a list of more
\* than capacity nodes has a cycle and is cut there
RECURSIVE ListFrom(_, _, _)
ListFrom(mm, addr, left) ==
    IF addr = NULL \/ left = 0 THEN <<>>
    ELSE <<addr>> \o ListFrom(mm, mm.buckets[addr].next, left - 1)

OrderList(mm) == ListFrom(mm, mm.first, mm.capacity + 1)

ListNodes(mm) == {OrderList(mm)[i] : i \in DOMAIN OrderList(mm)}

IsTombstone(e) == e.key = NULL /\ e.value # 0

\* the live entries: key reference, key size, digest and value of each
LiveSet(mm) ==
    {[key |-> mm.buckets[i].key, ksize |-> mm.buckets[i].ksize,
      hash |-> mm.buckets[i].hash, value |-> mm.buckets[i].value] :
        i \in {j \in 0 .. mm.capacity - 1 : mm.buckets[j].key # NULL}}

LiveEntry(mm, data) == CHOOSE e \in LiveSet(mm) : KeyData(e.key) = data

\* what a bucket holds for its entry: key reference, key size, digest, value
EntryOf(e) == [key |-> e.key, ksize |-> e.ksize, hash |-> e.hash, value |-> e.value]

\* the live entries in the order of the list from m->first
LiveSeq(mm) ==
    LET IsLive(i) == mm.buckets[i].key # NULL
        nodes == SelectSeq(OrderList(mm), IsLive)
    IN  [k \in DOMAIN nodes |-> EntryOf(mm.buckets[nodes[k]])]

\* the position in LiveSeq of the entry whose key has the bytes `data`, or 0
LivePos(mm, data) ==
    LET ls == LiveSeq(mm)
    IN  IF \E k \in DOMAIN ls : KeyData(ls[k].key) = data
        THEN CHOOSE k \in DOMAIN ls : KeyData(ls[k].key) = data
        ELSE 0

InsertOps == {"set", "get_set", "set_free"}

\* the history is n inserts of n distinct keys and nothing else
InsertsOnly(n) == Len(shadow) = n /\ fillers + writes = n

-----------------------------------------------------------------------------
(* The properties *)

\* C1: round trip.  After any sequence of calls, hashmap_get of a key that was
\* inserted and not removed since returns true and the value stored last; of a
\* key never inserted, or removed since, it returns false.
C1_RoundTrip ==
    \A p \in KnownKeys :
        LET r == Lookup(m, p)
        IN  /\ r # NO_RETURN
            /\ IF ShadowHas(shadow, KeyData(p))
               THEN r.ret /\ r.out_val = ShadowValue(shadow, KeyData(p))
               ELSE ~r.ret

\* a lookup finds its key after a resize, in a map that holds a tombstone
C1_Witness ==
    /\ call.op = "get"
    /\ call.ret
    /\ m.capacity > HASHMAP_DEFAULT_CAPACITY
    /\ m.tombstone_count > 0

\* C2: insertion order.  In every state the traversal from first, skipping
\* tombstones, yields exactly the live entries, each once, in the order of
\* their insertion; every tombstone is a node of the list; and a call that
\* resizes leaves a list without tombstone nodes.
C2_OrderInvariant ==
    /\ Visits(hashmap_iterate_inline(m, removable)) = ShadowVisits(shadow)
    /\ \A i \in 0 .. m.capacity - 1 : IsTombstone(m.buckets[i]) => i \in ListNodes(m)

C2_InsertionOrder ==
    /\ []C2_OrderInvariant
    /\ [][m'.capacity # m.capacity =>
            \A i \in ListNodes(m') : m'.buckets[i].key # NULL]_vars

\* after a resize, a traversal passes a tombstone that lies between live nodes
C2_Witness ==
    /\ call.op = "iterate_inline"
    /\ m.capacity > HASHMAP_DEFAULT_CAPACITY
    /\ \E i, j, k \in DOMAIN OrderList(m) :
        /\ i < j /\ j < k
        /\ m.buckets[OrderList(m)[i]].key # NULL
        /\ IsTombstone(m.buckets[OrderList(m)[j]])
        /\ m.buckets[OrderList(m)[k]].key # NULL

\* C3: removal.  When the key is live, after hashmap_remove or
\* hashmap_remove_free hashmap_get of it returns false, hashmap_size is one
\* less, and the other live entries are unchanged.
C3_Remove ==
    [][(call'.op \in {"remove", "remove_free"} /\ ShadowHas(shadow, KeyData(call'.key))) =>
        /\ Lookup(m', call'.key) # NO_RETURN
        /\ ~Lookup(m', call'.key).ret
        /\ SizeOf(m') = SizeOf(m) - 1
        /\ LiveSet(m') = {e \in LiveSet(m) : KeyData(e.key) # KeyData(call'.key)}
        /\ Cardinality(LiveSet(m')) = Cardinality(LiveSet(m)) - 1]_vars

\* hashmap_remove_free has removed a live key and other entries remain
C3_Witness ==
    /\ call.op = "remove_free"
    /\ Len(call.cb) = 1
    /\ SizeOf(m) >= 2

\* C4: overwrite.  hashmap_set(key, v1) and then hashmap_set(key, v2) leaves
\* hashmap_size as after the first call and hashmap_get(key) returns (v2,
\* true), also when the second call resizes.
C4_Overwrite ==
    [][(call.op = "set" /\ call'.op = "set" /\ KeyData(call.key) = KeyData(call'.key)) =>
        /\ SizeOf(m') = SizeOf(m)
        /\ Lookup(m', call'.key) # NO_RETURN
        /\ Lookup(m', call'.key).ret
        /\ Lookup(m', call'.key).out_val = call'.val]_vars

\* hashmap_set has just stored a named key, and a second hashmap_set of it
\* will resize first
C4_Witness ==
    /\ call.op = "set"
    /\ call.key \in NamedKeys
    /\ MayWrite
    /\ ExceedsMaxLoad(m.count + 1, m.capacity)

\* C5: load factor.  After every insert-class call count <= 0.75 * capacity,
\* and across every call capacity stays the same or exactly doubles.
C5_LoadFactor ==
    [][/\ call'.op \in InsertOps => 4 * m'.count <= 3 * m'.capacity
       /\ m'.capacity = m.capacity \/ m'.capacity = 2 * m.capacity]_vars

\* an insert has doubled the capacity
C5_Witness ==
    /\ call.op \in InsertOps
    /\ m.capacity = 2 * HASHMAP_DEFAULT_CAPACITY

\* C6 as stated: 14 distinct inserts leave the capacity at 20, and the 15th
\* resizes to 40, all 15 keys being retrievable
C6_Original ==
    /\ \A n \in 0 .. 14 : InsertsOnly(n) => m.capacity = 20
    /\ InsertsOnly(15) =>
        /\ m.capacity = 40
        /\ \A i \in DOMAIN shadow : \E p \in KnownKeys :
            /\ KeyData(p) = shadow[i].data
            /\ Lookup(m, p).ret
            /\ Lookup(m, p).out_val = shadow[i].value

\* C6 amended: on a table created with capacity 20, inserting 15 distinct keys
\* leaves the capacity at 20 after each insert, and inserting a 16th distinct
\* key resizes to capacity 40 before that insert completes; all 16 keys are
\* retrievable afterwards with their original values.
C6_ScenarioA ==
    /\ \A n \in 0 .. 15 : InsertsOnly(n) => m.capacity = 20
    /\ InsertsOnly(16) =>
        /\ m.capacity = 40
        /\ \A i \in DOMAIN shadow : \E p \in KnownKeys :
            /\ KeyData(p) = shadow[i].data
            /\ Lookup(m, p) # NO_RETURN
            /\ Lookup(m, p).ret
            /\ Lookup(m, p).out_val = shadow[i].value

\* sixteen distinct keys are in, and the table has been resized
C6_Witness == InsertsOnly(16) /\ m.capacity = 40 /\ SizeOf(m) = 16

\* C7: hashmap_get_set returns true iff the key was live; then the stored value
\* is unchanged and copied to *out_in; otherwise the key is inserted with the
\* value *out_in held on entry, at the tail of the order list, size + 1; in
\* both cases *out_in is the value stored for the key afterwards.
C7_GetSet ==
    [][call'.op = "get_set" =>
        LET live == ShadowHas(shadow, KeyData(call'.key))
            after == Lookup(m', call'.key)
        IN  /\ call'.ret = live
            /\ after # NO_RETURN
            /\ after.ret
            /\ call'.out = after.out_val
            /\ live =>
                /\ after.out_val = ShadowValue(shadow, KeyData(call'.key))
                /\ SizeOf(m') = SizeOf(m)
                /\ LiveSet(m') = LiveSet(m)
            /\ ~live =>
                /\ after.out_val = call'.val
                /\ SizeOf(m') = SizeOf(m) + 1
                /\ m'.last # FIRST_ADDR
                /\ m'.buckets[m'.last].key = call'.key
                /\ m'.buckets[m'.last].next = NULL]_vars

\* hashmap_get_set has found its key and handed out a value other than the
\* one passed in
C7_Witness ==
    /\ call.op = "get_set"
    /\ call.ret
    /\ call.out # call.val

\* C8: hashmap_set_free on a live key invokes the callback exactly once, with
\* the old key reference and the old value, before the slot is overwritten, and
\* then the slot holds the new key reference and val; on a key that is not
\* live the callback is not invoked and the entry is inserted as by hashmap_set.
C8_SetFree ==
    [][call'.op = "set_free" =>
        LET data == KeyData(call'.key)
        IN  IF ShadowHas(shadow, data)
            THEN /\ Len(call'.cb) = 1
                 /\ call'.cb[1].key = LiveEntry(m, data).key
                 /\ call'.cb[1].value = LiveEntry(m, data).value
                 /\ call'.cb[1].entry_key = LiveEntry(m, data).key
                 /\ call'.cb[1].entry_value = LiveEntry(m, data).value
                 /\ LiveEntry(m', data).key = call'.key
                 /\ LiveEntry(m', data).value = call'.val
                 /\ SizeOf(m') = SizeOf(m)
            ELSE /\ call'.cb = <<>>
                 /\ m' = hashmap_set(m, call'.key, KeySize(call'.key), call'.val, removable)]_vars

\* hashmap_set_free has replaced the key reference and the value of a live
\* entry by other ones
C8_Witness ==
    /\ call.op = "set_free"
    /\ Len(call.cb) = 1
    /\ call.cb[1].key # call.key
    /\ call.cb[1].value # call.val

\* C9: hashmap_get leaves the whole map unchanged and never resizes, also when
\* count + 1 > 0.75 * capacity; on a miss it returns false and writes zero.
C9_GetIsPure ==
    [][call'.op = "get" =>
        /\ m' = m
        /\ call'.ret = ShadowHas(shadow, KeyData(call'.key))
        /\ ~call'.ret => call'.out = 0]_vars

\* a lookup has missed in a map in which an insert would resize
C9_Witness ==
    /\ call.op = "get"
    /\ ~call.ret
    /\ call.out = 0
    /\ ExceedsMaxLoad(m.count + 1, m.capacity)

\* C10: hashmap_iterate invokes the callback exactly once for every live entry,
\* in insertion order, whatever the number of nodes of the order list
C10_IterateVisitsAll ==
    call.op = "iterate" => Visits(call.cb) = ShadowVisits(shadow)

\* a step that is hashmap_set of a key that is live
SetOverwrites == call'.op = "set" /\ ShadowHas(shadow, KeyData(call'.key))

\* the entry of the key keeps its key reference, key size, digest and place in
\* the insertion order and takes the value; the other live entries are unchanged
SetFrame ==
    LET k == LivePos(m, KeyData(call'.key))
    IN  /\ k # 0
        /\ LiveSeq(m') = [LiveSeq(m) EXCEPT ![k].value = call'.val]

\* C11 as stated: hashmap_set on a key that is already live changes only that
\* entry's value, and count and tombstone_count are unchanged
C11_Original ==
    [][SetOverwrites =>
        /\ SetFrame
        /\ m'.count = m.count
        /\ m'.tombstone_count = m.tombstone_count]_vars

\* C11 amended: hashmap_set on a key that is already live changes only that
\* entry's value: key reference, key size, digest, place in the insertion
\* order, every other live entry and hashmap_size are unchanged.  When count +
\* 1 <= 0.75 * capacity on entry nothing else of the map changes; otherwise
\* the call resizes first: the tombstones are dropped, tombstone_count becomes
\* 0 and count goes down by the former tombstone_count.
C11_SetFrame ==
    [][SetOverwrites =>
        /\ SetFrame
        /\ SizeOf(m') = SizeOf(m)
        /\ IF 4 * (m.count + 1) > 3 * m.capacity
           THEN /\ m'.capacity = 2 * m.capacity
                /\ m'.tombstone_count = 0
                /\ m'.count = SizeOf(m)
           ELSE \E i \in 0 .. m.capacity - 1 :
                    m' = [m EXCEPT !.buckets[i].value = call'.val]]_vars

\* hashmap_set has overwritten the live key and resized: the table has grown
\* before the 16th insert, and the 14 tombstones are gone
C11_Witness ==
    /\ call.op = "set"
    /\ removable
    /\ fillers = 0
    /\ writes = 2 * 15 - 1
    /\ m.capacity = 2 * HASHMAP_DEFAULT_CAPACITY
    /\ m.tombstone_count = 0
    /\ m.count = 1

\* C12: resize trigger.  A call of hashmap_set, hashmap_get_set or
\* hashmap_set_free resizes (the capacity doubles) if and only if count + 1 >
\* 0.75 * capacity on entry, count including the tombstones, whether or not
\* the key is already present; hashmap_get, hashmap_remove,
\* hashmap_remove_free, hashmap_size and hashmap_iterate never resize.
C12_ResizeTrigger ==
    [][/\ call'.op \in InsertOps =>
            /\ (m'.capacity # m.capacity) <=> (4 * (m.count + 1) > 3 * m.capacity)
            /\ m'.capacity # m.capacity => m'.capacity = HASHMAP_RESIZE_FACTOR * m.capacity
       /\ call'.op \notin InsertOps => m'.capacity = m.capacity /\ m'.count = m.count]_vars

\* hashmap_get_set has found its key and has resized all the same: in the
\* build without removal count only grows, and it is still 15 in the table of 40
C12_Witness ==
    /\ ~removable
    /\ call.op = "get_set"
    /\ call.ret
    /\ m.capacity = 2 * HASHMAP_DEFAULT_CAPACITY
    /\ 4 * m.count = 3 * HASHMAP_DEFAULT_CAPACITY

\* the next insert-class call starts with hashmap_resize
ResizeDue(mm) == 4 * (mm.count + 1) > 3 * mm.capacity

Occupied(mm) == {i \in 0 .. mm.capacity - 1 : mm.buckets[i].key # NULL}

NoTombstone(mm) == \A i \in 0 .. mm.capacity - 1 : ~IsTombstone(mm.buckets[i])

\* the live entries but the one whose key has the bytes `data`
LiveOthers(mm, data) ==
    LET Other(e) == KeyData(e.key) # data IN SelectSeq(LiveSeq(mm), Other)

\* what hashmap_resize makes of the map mm: r
ResizePreserves(mm, r) ==
    /\ r # NO_RETURN
    /\ r.capacity = HASHMAP_RESIZE_FACTOR * mm.capacity
    /\ LiveSeq(r) = LiveSeq(mm)
    /\ Cardinality(Occupied(r)) = Len(LiveSeq(mm))
    /\ ListNodes(r) = Occupied(r)
    /\ NoTombstone(r)
    /\ r.tombstone_count = 0
    /\ r.count = Len(LiveSeq(mm))
    /\ hashmap_size(r, removable) = hashmap_size(mm, removable)
    /\ IF LiveSeq(mm) = <<>>
       THEN r.last = FIRST_ADDR /\ r.first = NULL
       ELSE /\ r.last \in Occupied(r)
            /\ EntryOf(r.buckets[r.last]) = LiveSeq(mm)[Len(LiveSeq(mm))]
            /\ r.buckets[r.last].next = NULL

\* C13: resize preserves exactly the live entries.  Whenever an insert-class
\* call is about to resize, hashmap_resize yields an array that holds the live
\* entries, in their order, with the same key reference, key size, digest and
\* value, and nothing else: no tombstone, tombstone_count 0, count the number
\* of live entries, hashmap_size unchanged, last the last live entry or the
\* head sentinel; and the call that resizes leaves the live entries of the
\* other keys as they were and no tombstone.
C13_ResizeInvariant == ResizeDue(m) => ResizePreserves(m, hashmap_resize(m, removable))

C13_ResizePreserves ==
    /\ []C13_ResizeInvariant
    /\ [][m'.capacity # m.capacity =>
            /\ LiveOthers(m', KeyData(call'.key)) = LiveOthers(m, KeyData(call'.key))
            /\ NoTombstone(m')
            /\ m'.tombstone_count = 0
            /\ m'.count = Len(LiveSeq(m'))
            /\ m'.last \in Occupied(m')]_vars

\* the 16th insert after 15 cycles of insert and remove has resized a list
\* that consisted of 15 tombstones: the new table holds the one new entry
C13_Witness ==
    /\ removable
    /\ call.op = "set"
    /\ fillers = 0
    /\ writes = 2 * 15 + 1
    /\ m.capacity = 2 * HASHMAP_DEFAULT_CAPACITY
    /\ m.count = 1
    /\ m.first = m.last

\* a slot never used since the array was allocated: null key and zero value
TrueEmpty(e) == e.key = NULL /\ e.value = 0

\* the slots the probe for bucket i passes before it reaches i: from the
\* stored digest mod capacity, stepping by one modulo capacity
ProbeBefore(mm, i) ==
    LET home == Mod32(mm.buckets[i].hash, mm.capacity)
        dist == (i - home) % mm.capacity
    IN  {(home + d) % mm.capacity : d \in 0 .. dist - 1}

\* C14: probe reachability.  In every reachable state no true-empty slot lies
\* on the probe chain of a live entry, from its digest mod capacity up to its
\* slot, also after removals of entries earlier in the chain and after a resize.
C14_ProbeReachable ==
    \A i \in Occupied(m) : \A j \in ProbeBefore(m, i) : ~TrueEmpty(m.buckets[j])

\* in a resized table a live entry lies behind a tombstone of its probe chain
C14_Witness ==
    /\ m.capacity > HASHMAP_DEFAULT_CAPACITY
    /\ \E i \in Occupied(m) : \E j \in ProbeBefore(m, i) : IsTombstone(m.buckets[j])

\* every call of the interface on the key buffer p returns
CallsReturn(p) ==
    /\ find_entry(m, p, KeySize(p), hash_data(KeyData(p), KeySize(p)), removable) # NO_BUCKET
    /\ hashmap_get(m, p, KeySize(p), removable) # NO_RETURN
    /\ removable => hashmap_remove(m, p, KeySize(p)) # NO_RETURN
    /\ removable => hashmap_remove_free(m, p, KeySize(p)) # NO_RETURN
    /\ \A val \in Values :
        /\ hashmap_set(m, p, KeySize(p), val, removable) # NO_RETURN
        /\ hashmap_get_set(m, p, KeySize(p), val, removable) # NO_RETURN
        /\ hashmap_set_free(m, p, KeySize(p), val, removable) # NO_RETURN

\* C15: probe termination.  In every reachable state count < capacity and the
\* array has a true-empty slot, so find_entry returns within capacity probe
\* steps for every key, present or absent, and so does every call of the
\* interface, a resize with its resize_entry calls included.
C15_ProbeTerminates ==
    /\ m.count < m.capacity
    /\ \E i \in 0 .. m.capacity - 1 : TrueEmpty(m.buckets[i])
    /\ \A p \in KnownKeys : CallsReturn(p)

\* the table is as full as it gets, with tombstones only, and the probe for
\* an absent key has passed them all and stopped at a true-empty slot
C15_Witness ==
    /\ removable
    /\ 4 * m.count = 3 * m.capacity
    /\ m.tombstone_count = m.count
    /\ \E p \in NamedKeys :
        LET entry == find_entry(m, p, KeySize(p), hash_data(KeyData(p), KeySize(p)), removable)
        IN  /\ entry # NO_BUCKET
            /\ TrueEmpty(m.buckets[entry])
            /\ (entry - Mod32(hash_data(KeyData(p), KeySize(p)), m.capacity)) % m.capacity
                   = m.tombstone_count

\* a step that inserts a key that is not live
FreshInsert == call'.op \in InsertOps /\ ~ShadowHas(shadow, KeyData(call'.key))

RECURSIVE Fnv1aFrom(_, _, _)
Fnv1aFrom(data, i, h) ==
    IF i > Len(data) THEN h
    ELSE Fnv1aFrom(data, i + 1, Mul32(Xor32(h, data[i]), <<256, 403>>))

\* C17: the digest hash_data computes for a key is its 32-bit FNV-1a, started
\* from 2166136261 = 33052 * 2^16 + 40389, to which every byte of the key
\* contributes
C17_HashIsFnv1a ==
    call.op = "hash_data" => call.out = Fnv1aFrom(call.key, 1, <<33052, 40389>>)

NonEmpty(mm) == {i \in 0 .. mm.capacity - 1 : ~TrueEmpty(mm.buckets[i])}

Tombstones(mm) == {i \in 0 .. mm.capacity - 1 : IsTombstone(mm.buckets[i])}

\* C18: bookkeeping.  In every reachable state count is the number of
\* non-empty slots, tombstone_count the number of tombstone slots and
\* hashmap_size the number of occupied slots; the order list from first is
\* acyclic, has count nodes, holds every non-empty slot exactly once and ends
\* at last, and last is the head sentinel exactly when the list is empty.
C18_Bookkeeping ==
    /\ m.count = Cardinality(NonEmpty(m))
    /\ m.tombstone_count = Cardinality(Tombstones(m))
    /\ SizeOf(m) = Cardinality(Occupied(m))
    /\ NonEmpty(m) = Occupied(m) \cup Tombstones(m)
    /\ Len(OrderList(m)) = m.count
    /\ ListNodes(m) = NonEmpty(m)
    /\ (m.last = FIRST_ADDR) <=> (OrderList(m) = <<>>)
    /\ IF OrderList(m) = <<>>
       THEN m.first = NULL
       ELSE /\ m.last = OrderList(m)[Len(OrderList(m))]
            /\ m.buckets[m.last].next = NULL

\* a resized table with live entries and a tombstone, which is the last node
C18_Witness ==
    /\ m.capacity > HASHMAP_DEFAULT_CAPACITY
    /\ m.last # FIRST_ADDR
    /\ IsTombstone(m.buckets[m.last])
    /\ SizeOf(m) > 0
    /\ m.count = SizeOf(m) + m.tombstone_count

Cycles(k) ==
    /\ fillers = 0
    /\ m.capacity = HASHMAP_DEFAULT_CAPACITY
    /\ writes = 2 * k
    /\ m.tombstone_count = k

\* C20: capacity growth under churn.  While hashmap_size is never above 1, a
\* removal leaves count as it is; k <= 15 cycles of insert and remove on the
\* fresh table leave count = k in the table of 20, the 16th insert resizes to
\* 40, and whenever count + 1 > 0.75 * capacity the next insert doubles the
\* capacity again, hashmap_size still being 1.
C20_ChurnInvariant ==
    /\ fillers = 0 => SizeOf(m) <= 1
    /\ \A k \in 0 .. 15 : Cycles(k) => m.count = k /\ SizeOf(m) = 0

C20_ChurnGrows ==
    /\ []C20_ChurnInvariant
    /\ [][call'.op = "remove" => m'.count = m.count /\ m'.capacity = m.capacity]_vars
    /\ [][(Cycles(15) /\ call'.op = "set") =>
            /\ m'.capacity = 2 * HASHMAP_DEFAULT_CAPACITY
            /\ m'.count = 1]_vars
    /\ [][(fillers' = 0 /\ FreshInsert /\ 4 * (m.count + 1) > 3 * m.capacity) =>
            /\ m'.capacity = 2 * m.capacity
            /\ SizeOf(m') = 1]_vars

\* the capacity has doubled twice, and hashmap_size has never been above 1
C20_Witness ==
    /\ removable
    /\ fillers = 0
    /\ m.capacity = 4 * HASHMAP_DEFAULT_CAPACITY
    /\ SizeOf(m) = 1
    /\ call.op = "set"

====
